---- MODULE Spec2Model ----
(***************************************************************************)
(* Notes (objects/src/notes/mod.rs), the standardized note builders        *)
(* (miden-lib/src/notes/mod.rs) and the transaction authenticator          *)
(* (miden-tx/src/host/tx_authenticator.rs).                                *)
(*                                                                         *)
(* Field elements are naturals, words are 4-tuples of field elements.      *)
(* Widths are scaled down: account ids and note tags are 4-bit numbers,    *)
(* the hash is an arithmetic mixing function over Z_HashMod (collisions    *)
(* are possible, nothing below assumes there are none).                    *)
(***************************************************************************)
EXTENDS Integers, Sequences, FiniteSets, TLC

VARIABLES
    note,       \* the Note most recently constructed, or NoNote
    call,       \* the most recent constructor / builder call and its arguments
    ret,        \* what that call returned: [ok, note, payback]
    rng,        \* the caller-supplied FeltRng handed to the builders
    draws,      \* the words the most recent builder call drew from rng, in order
    buf,        \* the byte target / source of Note serialization
    src,        \* the Note whose write_into produced buf (NoNote: none)
    dirty,      \* whether buf was changed after write_into
    loaded,     \* result of Note::read_from(buf): [ok, note], or NotRead
    keys,       \* BasicAuthenticator.keys: public key digest |-> secret key
    authRng,    \* the random source inside BasicAuthenticator.rng
    borrowed,   \* whether the RefCell around it is mutably borrowed
    calls,      \* the get_signature calls on the authenticator, by call slot
                \* (rng0: the random source as the call's signing found it)
    twin,       \* two more authenticators built from the same keys and seed
    keyList,    \* the (public key, secret key) pairs new_with_rng was given
    unitCalls,  \* the get_signature calls made on the authenticator (), in order
    akey,       \* the AuthSecretKey most recently serialized (NoKey: none)
    abuf,       \* the byte target / source of AuthSecretKey serialization
    adirty,     \* whether abuf was changed after write_into
    aread,      \* result of AuthSecretKey::read_from(abuf), or KeyNotRead
    num_created_notes,  \* kernel memory: the number of created notes
    kmem,       \* kernel memory: the created-note section, address |-> word
    kstack,     \* top of the operand stack after the most recent create_note
    kcall       \* the most recent create_note and how it ended

noteVars == <<note, call, ret, rng, draws, buf, src, dirty, loaded>>

authVars == <<keys, authRng, borrowed, calls, twin, keyList>>

unitVars == <<unitCalls>>

keyVars == <<akey, abuf, adirty, aread>>

kernelVars == <<num_created_notes, kmem, kstack, kcall>>

restVars == <<unitVars, keyVars, kernelVars>>

\* --------------------------------------------------------------- bounds --

\* modulus of the stand-in hash
HashMod == 7
\* number of states of the stand-in random coin
RngMod == 4
\* number of coefficients of a Falcon polynomial (512 in the library)
PolyN == 2

\* ------------------------------------------------------------ primitives --

ZERO == 0
EMPTY_WORD == <<0, 0, 0, 0>>
NoNote == [none |-> TRUE]
NotRead == [unread |-> TRUE]

\* One output element of the stand-in permutation.
MergeElement(a, b, i) ==
    (3 * (a[i] % HashMod) + 5 * (b[i] % HashMod) + (a[(i % 4) + 1] % HashMod)
        + 2 * (b[((i + 1) % 4) + 1] % HashMod) + i) % HashMod

\* Hasher::merge: two digests to one digest.
Merge(a, b) ==
    <<MergeElement(a, b, 1), MergeElement(a, b, 2), MergeElement(a, b, 3), MergeElement(a, b, 4)>>

AbsorbElement(h, x, n, i) == (2 * h[i] + h[(i % 4) + 1] + (i + 1) * (x % HashMod) + n) % HashMod

Absorb(h, x, n) ==
    <<AbsorbElement(h, x, n, 1), AbsorbElement(h, x, n, 2), AbsorbElement(h, x, n, 3),
      AbsorbElement(h, x, n, 4)>>

\* Hasher::hash_elements: a sequence of field elements to one digest.
RECURSIVE HashElements(_)
HashElements(s) ==
    IF Len(s) = 0 THEN EMPTY_WORD
    ELSE Absorb(HashElements(SubSeq(s, 1, Len(s) - 1)), s[Len(s)], Len(s))

\* FeltRng::draw_word: the word drawn in state s, and the state after the draw.
DrawWord(s) == <<s, (s + 1) % 3, (2 * s) % 5, 1>>
RngAfterDraw(s) == (s + 1) % RngMod

\* ---------------------------------------------------------------- scripts --

\* The compiled note scripts: the three embedded ones and a user script.
NoteScripts == {"P2ID", "P2IDR", "SWAP", "USER"}

\* utils::build_note_script on the embedded bytes of a standard script.
BuildNoteScript(name) == [ok |-> name \in NoteScripts, script |-> name]

\* NoteScript::hash: the hash of the compiled code block.
ScriptHash(s) ==
    CASE s = "P2ID"  -> <<1, 2, 3, 4>>
      [] s = "P2IDR" -> <<2, 3, 4, 5>>
      [] s = "SWAP"  -> <<3, 4, 5, 6>>
      [] OTHER       -> <<4, 5, 6, 0>>

\* The script's serialized form (one token) and its inverse.
ScriptCode(s) ==
    CASE s = "P2ID" -> 11 [] s = "P2IDR" -> 12 [] s = "SWAP" -> 13 [] OTHER -> 14

ScriptOfCode(c) ==
    CASE c = 11 -> "P2ID" [] c = 12 -> "P2IDR" [] c = 13 -> "SWAP" [] c = 14 -> "USER"
      [] OTHER -> "INVALID"

\* ----------------------------------------------------------------- assets --

\* Word::from(Asset) of a fungible asset: [amount, 0, 0, faucet id].
AssetWord(a) == <<a.amount, ZERO, ZERO, a.faucet>>

AssetOfWord(w) == [amount |-> w[1], faucet |-> w[4]]

MAX_NUM_ASSETS == 255

\* NoteAssets::new: too many assets or two assets of one faucet are refused.
NoteAssetsNew(assets) ==
    [ok |-> /\ Len(assets) <= MAX_NUM_ASSETS
            /\ \A i, j \in 1..Len(assets) : i # j => assets[i].faucet # assets[j].faucet,
     assets |-> assets]

RECURSIVE AssetWords(_)
AssetWords(assets) ==
    IF Len(assets) = 0 THEN <<>>
    ELSE AssetWord(assets[1]) \o AssetWords(SubSeq(assets, 2, Len(assets)))

\* NoteAssets::commitment: hash over the asset words.
AssetsCommitment(assets) == HashElements(AssetWords(assets))

\* ----------------------------------------------------------------- inputs --

MAX_INPUTS_PER_NOTE == 128

\* NoteInputs::new: more than the maximum number of inputs is refused.
NoteInputsNew(values) == [ok |-> Len(values) <= MAX_INPUTS_PER_NOTE, inputs |-> values]

InputsCommitment(values) == HashElements(values)

\* --------------------------------------------------------------- metadata --

NoteTypes == {"Public", "Private", "Encrypted"}

NoteTypeCode(t) == CASE t = "Public" -> 1 [] t = "Private" -> 2 [] OTHER -> 3

NoteTypeOfCode(c) ==
    CASE c = 1 -> "Public" [] c = 2 -> "Private" [] c = 3 -> "Encrypted" [] OTHER -> "INVALID"

\* A tag is a 4-bit number; its two high bits are the execution hint:
\* 3 is local execution (any note type), anything else admits public notes only.
LOCAL_EXECUTION == 3

TagHint(tag) == tag \div 4

\* NoteTag::from_account_id(account_id, NoteExecutionHint::Local): the local
\* prefix followed by the two high bits of the (4-bit) account id.
NoteTagFromAccountId(id) == [ok |-> TRUE, tag |-> LOCAL_EXECUTION * 4 + (id \div 4)]

\* NoteTag::validate, the type x tag cross-validation.
TagValid(tag, note_type) ==
    /\ tag \in 0..15
    /\ (TagHint(tag) # LOCAL_EXECUTION => note_type = "Public")

\* NoteMetadata::new.
NoteMetadataNew(sender, note_type, tag, aux) ==
    [ok |-> TagValid(tag, note_type),
     metadata |-> [sender |-> sender, note_type |-> note_type, tag |-> tag, aux |-> aux]]

\* -------------------------------------------------------------- recipient --

\* NoteRecipient::new.
NoteRecipientNew(serial_num, script, inputs) ==
    [serial_num |-> serial_num, script |-> script, inputs |-> inputs]

\* NoteRecipient::digest: hash(hash(hash(serial_num, EMPTY_WORD), script hash), inputs hash).
RecipientDigest(r) ==
    Merge(Merge(Merge(r.serial_num, EMPTY_WORD), ScriptHash(r.script)),
          InputsCommitment(r.inputs))

\* ---------------------------------------------------------------- details --

\* NoteDetails::new.
NoteDetailsNew(assets, recipient) == [assets |-> assets, recipient |-> recipient]

\* NoteDetails::id: hash(recipient digest, asset commitment).
DetailsId(d) == Merge(RecipientDigest(d.recipient), AssetsCommitment(d.assets))

NULLIFIER_DOMAIN == <<1, 0, 0, 0>>

\* NoteDetails::nullifier: the same inputs, separated from the id by a domain tag.
DetailsNullifier(d) ==
    Merge(Merge(RecipientDigest(d.recipient), AssetsCommitment(d.assets)), NULLIFIER_DOMAIN)

\* NoteHeader::new.
NoteHeaderNew(id, metadata) == [id |-> id, metadata |-> metadata]

\* ------------------------------------------------------------------- Note --

\* Mutant of NoteNew: the header keeps the id of the recipient alone.
NoteNew_StaleId(assets, metadata, recipient) ==
    LET details == NoteDetailsNew(assets, recipient)
    IN  [header    |-> NoteHeaderNew(RecipientDigest(recipient), metadata),
         details   |-> details,
         nullifier |-> DetailsNullifier(details)]

\* Note::new.
NoteNew(assets, metadata, recipient) ==
    LET details   == NoteDetailsNew(assets, recipient)
        header    == NoteHeaderNew(DetailsId(details), metadata)
        nullifier == DetailsNullifier(details)
    IN  [header |-> header, details |-> details, nullifier |-> nullifier]

\* ---------------------------------------------------------- serialization --

ReadFail == [ok |-> FALSE, val |-> NoNote, rest |-> <<>>]

\* NoteMetadata::write_into: sender id, note type, tag, aux.
MetadataWrite(m) == <<m.sender, NoteTypeCode(m.note_type), m.tag, m.aux>>

\* NoteMetadata::read_from: the four fields, validated as NoteMetadata::new does.
MetadataRead(s) ==
    IF Len(s) < 4 THEN ReadFail
    ELSE LET t == NoteTypeOfCode(s[2])
             m == NoteMetadataNew(s[1], t, s[3], s[4])
         IN  IF s[1] \notin 0..15 \/ t = "INVALID" \/ ~m.ok THEN ReadFail
             ELSE [ok |-> TRUE, val |-> m.metadata, rest |-> SubSeq(s, 5, Len(s))]

\* NoteAssets::write_into: the number of assets, then each asset's word.
AssetsWrite(assets) == <<Len(assets)>> \o AssetWords(assets)

RECURSIVE AssetsOfWords(_)
AssetsOfWords(s) ==
    IF Len(s) < 4 THEN <<>>
    ELSE <<AssetOfWord(SubSeq(s, 1, 4))>> \o AssetsOfWords(SubSeq(s, 5, Len(s)))

\* NoteAssets::read_from: the count, that many asset words, then NoteAssets::new.
AssetsRead(s) ==
    IF Len(s) < 1 THEN ReadFail
    ELSE IF Len(s) < 1 + 4 * s[1] THEN ReadFail
    ELSE LET ws == SubSeq(s, 2, 1 + 4 * s[1])
             as == AssetsOfWords(ws)
         IN  IF \E i \in 1..s[1] : ws[4 * i - 2] # ZERO \/ ws[4 * i - 1] # ZERO \/ ws[4 * i - 3] = 0
                 THEN ReadFail
             ELSE IF ~NoteAssetsNew(as).ok THEN ReadFail
             ELSE [ok |-> TRUE, val |-> as, rest |-> SubSeq(s, 2 + 4 * s[1], Len(s))]

\* NoteRecipient::write_into: serial number, script, inputs (count, then values).
RecipientWrite(r) ==
    r.serial_num \o <<ScriptCode(r.script)>> \o <<Len(r.inputs)>> \o r.inputs

\* NoteRecipient::read_from.
RecipientRead(s) ==
    IF Len(s) < 6 THEN ReadFail
    ELSE IF Len(s) < 6 + s[6] THEN ReadFail
    ELSE LET script == ScriptOfCode(s[5])
             inputs == NoteInputsNew(SubSeq(s, 7, 6 + s[6]))
         IN  IF script = "INVALID" \/ ~inputs.ok THEN ReadFail
             ELSE [ok |-> TRUE,
                   val |-> NoteRecipientNew(SubSeq(s, 1, 4), script, inputs.inputs),
                   rest |-> SubSeq(s, 7 + s[6], Len(s))]

\* NoteDetails::write_into: assets, then recipient.
DetailsWrite(d) == AssetsWrite(d.assets) \o RecipientWrite(d.recipient)

\* NoteDetails::read_from.
DetailsRead(s) ==
    LET a == AssetsRead(s)
        r == RecipientRead(a.rest)
    IN  IF ~a.ok THEN ReadFail
        ELSE IF ~r.ok THEN ReadFail
        ELSE [ok |-> TRUE, val |-> NoteDetailsNew(a.val, r.val), rest |-> r.rest]

\* Mutant of NoteWriteInto: the whole header (id, then metadata) is written.
NoteWriteInto_WholeHeader(n) ==
    n.header.id \o MetadataWrite(n.header.metadata) \o DetailsWrite(n.details)

\* impl Serializable for Note: metadata, then details; id and nullifier are not written.
NoteWriteInto(n) == MetadataWrite(n.header.metadata) \o DetailsWrite(n.details)

\* impl Deserializable for Note: metadata, details, then Note::new on the parts.
NoteReadFrom(s) ==
    LET metadata == MetadataRead(s)
        details  == DetailsRead(metadata.rest)
    IN  IF ~metadata.ok THEN [ok |-> FALSE, note |-> NoNote]
        ELSE IF ~details.ok THEN [ok |-> FALSE, note |-> NoNote]
        ELSE [ok |-> TRUE,
              note |-> NoteNew(details.val.assets, metadata.val, details.val.recipient)]

\* --------------------------------------------------------------- builders --

\* Felt::from(AccountId), Felt::from(u32), Felt::from(NoteTag::inner()): the
\* number itself, every one of them below the field modulus.
AccountIdToFelt(id) == id
U32ToFelt(x) == x

BuilderFail(rng_after, drawn) ==
    [ok |-> FALSE, note |-> NoNote, payback |-> EMPTY_WORD, rng |-> rng_after, draws |-> drawn]

\* Mutant of CreateP2idNote: the sender, not the target, is the note's input and tag.
CreateP2idNote_ForSender(sender, target, assets, note_type, rng0) ==
    LET inputs     == NoteInputsNew(<<AccountIdToFelt(sender)>>)
        tag        == NoteTagFromAccountId(sender)
        serial_num == DrawWord(rng0)
        metadata   == NoteMetadataNew(sender, note_type, tag.tag, ZERO)
        vault      == NoteAssetsNew(assets)
        recipient  == NoteRecipientNew(serial_num, "P2ID", inputs.inputs)
    IN  IF ~metadata.ok \/ ~vault.ok THEN BuilderFail(RngAfterDraw(rng0), <<serial_num>>)
        ELSE [ok |-> TRUE, note |-> NoteNew(vault.assets, metadata.metadata, recipient),
              payback |-> EMPTY_WORD, rng |-> RngAfterDraw(rng0), draws |-> <<serial_num>>]

\* create_p2id_note.
CreateP2idNote(sender, target, assets, note_type, rng0) ==
    LET note_script == BuildNoteScript("P2ID")
        inputs      == NoteInputsNew(<<AccountIdToFelt(target)>>)
        tag         == NoteTagFromAccountId(target)
        serial_num  == DrawWord(rng0)
        aux         == ZERO
        metadata    == NoteMetadataNew(sender, note_type, tag.tag, aux)
        vault       == NoteAssetsNew(assets)
        recipient   == NoteRecipientNew(serial_num, note_script.script, inputs.inputs)
    IN  IF ~note_script.ok \/ ~inputs.ok \/ ~tag.ok THEN BuilderFail(rng0, <<>>)
        ELSE IF ~metadata.ok \/ ~vault.ok THEN BuilderFail(RngAfterDraw(rng0), <<serial_num>>)
        ELSE [ok |-> TRUE, note |-> NoteNew(vault.assets, metadata.metadata, recipient),
              payback |-> EMPTY_WORD, rng |-> RngAfterDraw(rng0), draws |-> <<serial_num>>]

\* Mutant of CreateP2idrNote: the recall height comes first, and height 0 is refused.
CreateP2idrNote_HeightFirst(sender, target, assets, note_type, recall_height, rng0) ==
    LET inputs     == NoteInputsNew(<<U32ToFelt(recall_height), AccountIdToFelt(target)>>)
        tag        == NoteTagFromAccountId(target)
        serial_num == DrawWord(rng0)
        vault      == NoteAssetsNew(assets)
        metadata   == NoteMetadataNew(sender, note_type, tag.tag, ZERO)
        recipient  == NoteRecipientNew(serial_num, "P2IDR", inputs.inputs)
    IN  IF recall_height = 0 THEN BuilderFail(rng0, <<>>)
        ELSE IF ~vault.ok \/ ~metadata.ok THEN BuilderFail(RngAfterDraw(rng0), <<serial_num>>)
        ELSE [ok |-> TRUE, note |-> NoteNew(vault.assets, metadata.metadata, recipient),
              payback |-> EMPTY_WORD, rng |-> RngAfterDraw(rng0), draws |-> <<serial_num>>]

\* create_p2idr_note.
CreateP2idrNote(sender, target, assets, note_type, recall_height, rng0) ==
    LET note_script == BuildNoteScript("P2IDR")
        inputs      == NoteInputsNew(<<AccountIdToFelt(target), U32ToFelt(recall_height)>>)
        tag         == NoteTagFromAccountId(target)
        serial_num  == DrawWord(rng0)
        aux         == ZERO
        vault       == NoteAssetsNew(assets)
        metadata    == NoteMetadataNew(sender, note_type, tag.tag, aux)
        recipient   == NoteRecipientNew(serial_num, note_script.script, inputs.inputs)
    IN  IF ~note_script.ok \/ ~inputs.ok \/ ~tag.ok THEN BuilderFail(rng0, <<>>)
        ELSE IF ~vault.ok \/ ~metadata.ok THEN BuilderFail(RngAfterDraw(rng0), <<serial_num>>)
        ELSE [ok |-> TRUE, note |-> NoteNew(vault.assets, metadata.metadata, recipient),
              payback |-> EMPTY_WORD, rng |-> RngAfterDraw(rng0), draws |-> <<serial_num>>]

\* utils::build_p2id_recipient(target, serial_num): the digest of the recipient of
\* a P2ID note for target, that is of (serial_num, P2ID script, [target]).
BuildP2idRecipient(target, serial_num) ==
    LET note_script == BuildNoteScript("P2ID")
        inputs      == NoteInputsNew(<<AccountIdToFelt(target)>>)
    IN  [ok |-> note_script.ok /\ inputs.ok,
         digest |-> RecipientDigest(
                        NoteRecipientNew(serial_num, note_script.script, inputs.inputs))]

\* Mutant of CreateSwapNote: the requested asset's word is laid out before the
\* payback recipient.
CreateSwapNote_AssetFirst(sender, offered_asset, requested_asset, note_type, rng0) ==
    LET payback_serial_num == DrawWord(rng0)
        rng1               == RngAfterDraw(rng0)
        payback_recipient  == BuildP2idRecipient(sender, payback_serial_num)
        asset_word         == AssetWord(requested_asset)
        payback_tag        == NoteTagFromAccountId(sender)
        inputs             == NoteInputsNew(
                                  asset_word \o payback_recipient.digest
                                  \o <<U32ToFelt(payback_tag.tag)>>)
        serial_num         == DrawWord(rng1)
        rng2               == RngAfterDraw(rng1)
        metadata           == NoteMetadataNew(sender, note_type, 0, ZERO)
        vault              == NoteAssetsNew(<<offered_asset>>)
        recipient          == NoteRecipientNew(serial_num, "SWAP", inputs.inputs)
    IN  IF ~metadata.ok \/ ~vault.ok
            THEN BuilderFail(rng2, <<payback_serial_num, serial_num>>)
        ELSE [ok |-> TRUE, note |-> NoteNew(vault.assets, metadata.metadata, recipient),
              payback |-> payback_serial_num, rng |-> rng2,
              draws |-> <<payback_serial_num, serial_num>>]

\* Mutant of CreateSwapNote: one draw serves both serial numbers.
CreateSwapNote_OneDraw(sender, offered_asset, requested_asset, note_type, rng0) ==
    LET payback_serial_num == DrawWord(rng0)
        payback_recipient  == BuildP2idRecipient(sender, payback_serial_num)
        asset_word         == AssetWord(requested_asset)
        payback_tag        == NoteTagFromAccountId(sender)
        inputs             == NoteInputsNew(
                                  payback_recipient.digest \o asset_word
                                  \o <<U32ToFelt(payback_tag.tag)>>)
        metadata           == NoteMetadataNew(sender, note_type, 0, ZERO)
        vault              == NoteAssetsNew(<<offered_asset>>)
        recipient          == NoteRecipientNew(payback_serial_num, "SWAP", inputs.inputs)
    IN  IF ~metadata.ok \/ ~vault.ok
            THEN BuilderFail(RngAfterDraw(rng0), <<payback_serial_num>>)
        ELSE [ok |-> TRUE, note |-> NoteNew(vault.assets, metadata.metadata, recipient),
              payback |-> payback_serial_num, rng |-> RngAfterDraw(rng0),
              draws |-> <<payback_serial_num>>]

\* create_swap_note.
CreateSwapNote(sender, offered_asset, requested_asset, note_type, rng0) ==
    LET note_script        == BuildNoteScript("SWAP")
        payback_serial_num == DrawWord(rng0)
        rng1               == RngAfterDraw(rng0)
        payback_recipient  == BuildP2idRecipient(sender, payback_serial_num)
        asset_word         == AssetWord(requested_asset)
        payback_tag        == NoteTagFromAccountId(sender)
        inputs             == NoteInputsNew(
                                  <<payback_recipient.digest[1], payback_recipient.digest[2],
                                    payback_recipient.digest[3], payback_recipient.digest[4],
                                    asset_word[1], asset_word[2], asset_word[3], asset_word[4],
                                    U32ToFelt(payback_tag.tag)>>)
        tag                == 0
        serial_num         == DrawWord(rng1)
        rng2               == RngAfterDraw(rng1)
        aux                == ZERO
        metadata           == NoteMetadataNew(sender, note_type, tag, aux)
        vault              == NoteAssetsNew(<<offered_asset>>)
        recipient          == NoteRecipientNew(serial_num, note_script.script, inputs.inputs)
    IN  IF ~note_script.ok THEN BuilderFail(rng0, <<>>)
        ELSE IF ~payback_recipient.ok \/ ~payback_tag.ok \/ ~inputs.ok
            THEN BuilderFail(rng1, <<payback_serial_num>>)
        ELSE IF ~metadata.ok \/ ~vault.ok
            THEN BuilderFail(rng2, <<payback_serial_num, serial_num>>)
        ELSE [ok |-> TRUE, note |-> NoteNew(vault.assets, metadata.metadata, recipient),
              payback |-> payback_serial_num, rng |-> rng2,
              draws |-> <<payback_serial_num, serial_num>>]

\* ------------------------------------------------- inputs of the operations --

Senders == {2, 9}
Targets == {9, 14}
AssetA == [amount |-> 5, faucet |-> 3]
AssetB == [amount |-> 1, faucet |-> 6]
\* the last list holds one faucet twice and is refused by NoteAssets::new
AssetLists == {<<>>, <<AssetA>>, <<AssetA, AssetB>>, <<AssetB, AssetB>>}
RecallHeights == {0, 1, 2147483647}
TamperValues == {0, 2}

ValidAssetLists == {a \in AssetLists : NoteAssetsNew(a).ok}

ValidMetadata ==
    {NoteMetadataNew(s, t, g, x).metadata :
        <<s, t, g, x>> \in {q \in Senders \X NoteTypes \X {0, 13} \X {0, 1} :
                                NoteMetadataNew(q[1], q[2], q[3], q[4]).ok}}

Recipients ==
    {NoteRecipientNew(sn, sc, in) :
        sn \in {<<1, 1, 1, 1>>}, sc \in {"USER"}, in \in {<<>>, <<2, 6>>}}

NoCall ==
    [fn |-> "none", sender |-> 0, target |-> 0, assets |-> <<>>, note_type |-> "Public",
     recall_height |-> 0, offered |-> AssetA, requested |-> AssetA, rng0 |-> 0]

NoRet == [ok |-> FALSE, note |-> NoNote, payback |-> EMPTY_WORD]

\* ---------------------------------------------------------------- actions --

NoteInit ==
    /\ note = NoNote /\ call = NoCall /\ ret = NoRet
    /\ rng \in 0..(RngMod - 1) /\ draws = <<>>
    /\ buf = <<>> /\ src = NoNote /\ dirty = FALSE /\ loaded = NotRead

\* Note::new on validated parts.
NoteNewCall ==
    /\ call.fn = "none"
    /\ \E assets \in ValidAssetLists, metadata \in ValidMetadata, recipient \in Recipients :
          /\ note' = NoteNew(assets, metadata, recipient)
          /\ call' = [NoCall EXCEPT !.fn = "new", !.assets = assets, !.rng0 = rng]
          /\ ret' = [ok |-> TRUE, note |-> note', payback |-> EMPTY_WORD]
    /\ draws' = <<>>
    /\ UNCHANGED <<rng, buf, src, dirty, loaded>>
    /\ UNCHANGED authVars
    /\ UNCHANGED restVars

Returned(r) ==
    /\ note' = r.note
    /\ ret' = [ok |-> r.ok, note |-> r.note, payback |-> r.payback]
    /\ rng' = r.rng
    /\ draws' = r.draws
    /\ UNCHANGED <<buf, src, dirty, loaded>>
    /\ UNCHANGED authVars
    /\ UNCHANGED restVars

P2idCall ==
    /\ call.fn = "none"
    /\ \E sender \in Senders, target \in Targets, assets \in AssetLists, note_type \in NoteTypes :
          /\ call' = [NoCall EXCEPT !.fn = "p2id", !.sender = sender, !.target = target,
                                    !.assets = assets, !.note_type = note_type, !.rng0 = rng]
          /\ Returned(CreateP2idNote(sender, target, assets, note_type, rng))

P2idrCall ==
    /\ call.fn = "none"
    /\ \E sender \in Senders, target \in Targets, assets \in AssetLists, note_type \in NoteTypes,
          recall_height \in RecallHeights :
          /\ call' = [NoCall EXCEPT !.fn = "p2idr", !.sender = sender, !.target = target,
                                    !.assets = assets, !.note_type = note_type,
                                    !.recall_height = recall_height, !.rng0 = rng]
          /\ Returned(CreateP2idrNote(sender, target, assets, note_type, recall_height, rng))

SwapCall ==
    /\ call.fn = "none"
    /\ \E sender \in Senders, offered \in {AssetA, AssetB}, requested \in {AssetA, AssetB},
          note_type \in NoteTypes :
          /\ call' = [NoCall EXCEPT !.fn = "swap", !.sender = sender, !.offered = offered,
                                    !.requested = requested, !.note_type = note_type,
                                    !.rng0 = rng]
          /\ Returned(CreateSwapNote(sender, offered, requested, note_type, rng))

\* Note::write_into(&note, &mut buf) on an empty target.
WriteNote ==
    /\ note # NoNote /\ buf = <<>>
    /\ buf' = NoteWriteInto(note)
    /\ src' = note
    /\ dirty' = FALSE
    /\ UNCHANGED <<note, call, ret, rng, draws, loaded>>
    /\ UNCHANGED authVars
    /\ UNCHANGED restVars

\* The bytes change between the write and the read: one value is replaced.
TamperBuf ==
    /\ buf # <<>> /\ ~dirty /\ loaded = NotRead
    /\ \E i \in 1..Len(buf), v \in TamperValues :
          /\ v # buf[i]
          /\ buf' = [buf EXCEPT ![i] = v]
    /\ dirty' = TRUE
    /\ UNCHANGED <<note, call, ret, rng, draws, src, loaded>>
    /\ UNCHANGED authVars
    /\ UNCHANGED restVars

\* The bytes are cut short.
TruncateBuf ==
    /\ buf # <<>> /\ ~dirty /\ loaded = NotRead
    /\ \E n \in 1..(Len(buf) - 1) : buf' = SubSeq(buf, 1, n)
    /\ dirty' = TRUE
    /\ UNCHANGED <<note, call, ret, rng, draws, src, loaded>>
    /\ UNCHANGED authVars
    /\ UNCHANGED restVars

\* Note::read_from(&mut buf).
ReadNote ==
    /\ buf # <<>> /\ loaded = NotRead
    /\ loaded' = NoteReadFrom(buf)
    /\ UNCHANGED <<note, call, ret, rng, draws, buf, src, dirty>>
    /\ UNCHANGED authVars
    /\ UNCHANGED restVars

\* The note, the buffer and the loaded note go out of scope; the rng lives on.
DropNote ==
    /\ call.fn # "none"
    /\ note' = NoNote /\ call' = NoCall /\ ret' = NoRet /\ draws' = <<>>
    /\ buf' = <<>> /\ src' = NoNote /\ dirty' = FALSE /\ loaded' = NotRead
    /\ UNCHANGED rng
    /\ UNCHANGED authVars
    /\ UNCHANGED restVars

\* ========================================================= authenticator ==

NonceLen == 8
FalconQ == 12289

SecretKeys == {1, 2}
PubKeyA == <<1, 1, 1, 1>>
PubKeyB == <<2, 2, 2, 2>>
PubKeyC == <<3, 3, 3, 3>>
PubKeys == {PubKeyA, PubKeyB, PubKeyC}
Messages == {<<0, 0, 0, 1>>, <<5, 6, 7, 8>>}
AccountDeltas == {"empty", "nonce_incremented"}
Slots == {1, 2}

\* The key lists handed to new_with_rng; the last one names a public key twice.
KeyLists ==
    {<<<<PubKeyA, 1>>>>,
     <<<<PubKeyA, 1>>, <<PubKeyB, 2>>>>,
     <<<<PubKeyB, 1>>, <<PubKeyB, 2>>>>}

\* Digest::from(Word): the same four elements.
WordToDigest(w) == <<w[1], w[2], w[3], w[4]>>

\* BTreeMap::insert.
MapInsert(m, k, v) == [x \in (DOMAIN m) \cup {k} |-> IF x = k THEN v ELSE m[x]]

\* BasicAuthenticator::new_with_rng: the key map, a later pair replacing an earlier
\* one of the same public key.
RECURSIVE NewKeyMap(_)
NewKeyMap(list) ==
    IF Len(list) = 0 THEN <<>>
    ELSE MapInsert(NewKeyMap(SubSeq(list, 1, Len(list) - 1)),
                   WordToDigest(list[Len(list)][1]), list[Len(list)][2])

Reverse(s) == [i \in 1..Len(s) |-> s[Len(s) + 1 - i]]

\* SecretKey::sign_with_rng: the nonce and the signature polynomial s2, both
\* depending on the random source, which the signing advances.
SignWithRng(key, message, r) ==
    [nonce |-> [i \in 1..NonceLen |-> (3 * r + i) % 7],
     s2    |-> [i \in 1..PolyN |->
                   (7 * key + 3 * (message[1] + message[4]) + 5 * r + i * i) % FalconQ],
     rng   |-> (r + 1) % RngMod]

\* SecretKey::compute_pub_key_poly: the expanded public key h.
ComputePubKeyPoly(key) == [i \in 1..PolyN |-> (11 * key + i) % FalconQ]

RECURSIVE ProductCoefficient(_, _, _, _)
ProductCoefficient(a, b, k, i) ==
    IF i > Len(a) THEN 0
    ELSE (IF (k - i + 1) \in 1..Len(b) THEN a[i] * b[k - i + 1] ELSE 0)
         + ProductCoefficient(a, b, k, i + 1)

\* Polynomial::mul_modulo_p: the product of the two polynomials over the Miden
\* field, c[i + j] += a[i] * b[j], not reduced modulo x^N + 1: 2N coefficients.
MulModuloP(a, b) == [k \in 1..(2 * Len(a)) |-> ProductCoefficient(a, b, k, 1)]

\* Felt::from(a.value() as u32) and Felt::new(u64) on values below the modulus.
CoefficientToFelt(a) == a

\* Mutant of GetFalconSignature: the result is not reversed.
GetFalconSignature_NotReversed(key, message, r) ==
    LET sig == SignWithRng(key, message, r)
        h   == ComputePubKeyPoly(key)
    IN  [kind |-> "sig",
         sig  |-> sig.nonce \o h \o sig.s2 \o MulModuloP(h, sig.s2),
         rng  |-> sig.rng]

\* get_falcon_signature.
GetFalconSignature(key, message, r) ==
    LET sig    == SignWithRng(key, message, r)
        nonce  == sig.nonce
        s2     == sig.s2
        h      == ComputePubKeyPoly(key)
        pi     == MulModuloP(h, s2)
        result == nonce
                  \o [i \in 1..Len(h) |-> CoefficientToFelt(h[i])]
                  \o [i \in 1..Len(s2) |-> CoefficientToFelt(s2[i])]
                  \o [i \in 1..Len(pi) |-> CoefficientToFelt(pi[i])]
    IN  [kind |-> "sig", sig |-> Reverse(result), rng |-> sig.rng]

\* Mutant of RefCellBorrowMut: the borrow is handed out without looking at the flag.
RefCellBorrowMut_Unchecked(flag) == [panic |-> FALSE, flag |-> TRUE]

\* RefCell::borrow_mut: panics when the cell is already borrowed.
RefCellBorrowMut(flag) == [panic |-> flag, flag |-> TRUE]

\* Mutant of GetSignatureBody: a key that is not in the map is signed for with
\* the first key of the map.
GetSignatureBody_AnyKey(keymap, pub_key, message, account_delta, r) ==
    IF DOMAIN keymap # {}
        THEN GetFalconSignature(keymap[CHOOSE k \in DOMAIN keymap : TRUE], message, r)
    ELSE [kind |-> "UnknownKey", sig |-> <<>>, rng |-> r]

\* Mutant of GetSignatureBody: the account delta is folded into the message.
GetSignatureBody_SignsDelta(keymap, pub_key, message, account_delta, r) ==
    IF WordToDigest(pub_key) \in DOMAIN keymap
        THEN GetFalconSignature(
                 keymap[WordToDigest(pub_key)],
                 IF account_delta = "empty" THEN message
                 ELSE <<message[1] + 1, message[2], message[3], message[4]>>,
                 r)
    ELSE [kind |-> "UnknownKey", sig |-> <<>>, rng |-> r]

\* BasicAuthenticator::get_signature after the borrow: the lookup and the match.
GetSignatureBody(keymap, pub_key, message, account_delta, r) ==
    IF WordToDigest(pub_key) \in DOMAIN keymap
        THEN GetFalconSignature(keymap[WordToDigest(pub_key)], message, r)
    ELSE [kind |-> "UnknownKey", sig |-> <<>>, rng |-> r]

NoResult == [kind |-> "none", sig |-> <<>>]

IdleCall ==
    [pc |-> "idle", pub_key |-> PubKeyA, message |-> <<0, 0, 0, 1>>,
     account_delta |-> "empty", rng0 |-> 0, result |-> NoResult]

NoTwin == [rng |-> 0, result |-> NoResult, account_delta |-> "empty"]

\* ------------------------------------------- the no-op authenticator () --

\* The most get_signature calls made on () in one run.
MaxUnitCalls == 2

\* A variant of () that answers like an authenticator holding one key.
UnitGetSignature_Lookup(pub_key, message, account_delta) ==
    IF pub_key = PubKeyA THEN [kind |-> "sig", sig |-> message]
    ELSE [kind |-> "UnknownKey", sig |-> <<>>]

\* <() as TransactionAuthenticator>::get_signature: every argument is ignored.
UnitGetSignature(pub_key, message, account_delta) ==
    [kind |-> "RejectedSignature", sig |-> <<>>]

UnitIdle == unitCalls = <<>>

\* One more get_signature call on ().
UnitCall ==
    /\ Len(unitCalls) < MaxUnitCalls
    /\ \E pub_key \in PubKeys, message \in Messages, account_delta \in AccountDeltas :
          unitCalls' = Append(unitCalls,
                [pub_key |-> pub_key, message |-> message,
                 account_delta |-> account_delta,
                 result |-> UnitGetSignature(pub_key, message, account_delta)])
    /\ UNCHANGED <<noteVars, authVars, keyVars, kernelVars>>

\* --------------------------------------------- AuthSecretKey, serialized --

\* Bytes of key material in the encoding of one secret key.
SkLen == 2

\* The first byte of an encoded Falcon secret key.
SkHeader == 89

\* The bytes source.read_u8() can return.
Bytes == 0..255

\* The key material of secret key sk.
SkBytes(sk) == [i \in 1..SkLen |-> (sk * (16 + i)) % 256]

\* SecretKey::write_into: the header, then the key material.
SecretKeyWrite(sk) == <<SkHeader>> \o SkBytes(sk)

\* SecretKey::read_from on the bytes left in the source.
SecretKeyRead(bytes) ==
    IF Len(bytes) = 0
        THEN [ok |-> FALSE, err |-> "UnexpectedEOF", consumed |-> 0, secret_key |-> 0]
    ELSE IF bytes[1] # SkHeader
        THEN [ok |-> FALSE, err |-> "InvalidValue", consumed |-> 1, secret_key |-> 0]
    ELSE IF Len(bytes) < 1 + SkLen
        THEN [ok |-> FALSE, err |-> "UnexpectedEOF", consumed |-> Len(bytes), secret_key |-> 0]
    ELSE IF \E sk \in SecretKeys : SkBytes(sk) = SubSeq(bytes, 2, 1 + SkLen)
        THEN [ok |-> TRUE, err |-> "", consumed |-> 1 + SkLen,
              secret_key |-> CHOOSE sk \in SecretKeys :
                                 SkBytes(sk) = SubSeq(bytes, 2, 1 + SkLen)]
    ELSE [ok |-> FALSE, err |-> "InvalidValue", consumed |-> 1 + SkLen, secret_key |-> 0]

\* AuthSecretKey::RpoFalcon512(SecretKey).
RpoFalcon512(sk) == [variant |-> "RpoFalcon512", secret_key |-> sk]

AuthSecretKeys == {RpoFalcon512(sk) : sk \in SecretKeys}

NoKey == [variant |-> "none", secret_key |-> 0]

\* AuthSecretKey::key_id.
KeyId(k) == CASE k.variant = "RpoFalcon512" -> 0

\* A write_into that leaves the scheme identifier out.
AuthSecretKeyWriteInto_NoId(k) ==
    CASE k.variant = "RpoFalcon512" -> SecretKeyWrite(k.secret_key)

\* AuthSecretKey::write_into: key_id(), then the key's own encoding.
AuthSecretKeyWriteInto(k) ==
    CASE k.variant = "RpoFalcon512" -> <<KeyId(k)>> \o SecretKeyWrite(k.secret_key)

KeyNotRead == [ok |-> FALSE, err |-> "not read", value |-> "", consumed |-> 0, key |-> NoKey]

\* A read_from that takes every identifier for the Falcon scheme.
AuthSecretKeyReadFrom_AnyId(bytes) ==
    IF Len(bytes) = 0
        THEN [ok |-> FALSE, err |-> "UnexpectedEOF", value |-> "", consumed |-> 0, key |-> NoKey]
    ELSE LET r == SecretKeyRead(Tail(bytes))
         IN  [ok |-> r.ok, err |-> r.err, value |-> "", consumed |-> 1 + r.consumed,
              key |-> IF r.ok THEN RpoFalcon512(r.secret_key) ELSE NoKey]

\* AuthSecretKey::read_from: read_u8()?, then the match on the identifier.
AuthSecretKeyReadFrom(bytes) ==
    IF Len(bytes) = 0
        THEN [ok |-> FALSE, err |-> "UnexpectedEOF", value |-> "", consumed |-> 0, key |-> NoKey]
    ELSE LET auth_scheme_id == bytes[1]
         IN  IF auth_scheme_id = 0
                 THEN LET r == SecretKeyRead(Tail(bytes))
                      IN  [ok |-> r.ok, err |-> r.err, value |-> "",
                           consumed |-> 1 + r.consumed,
                           key |-> IF r.ok THEN RpoFalcon512(r.secret_key) ELSE NoKey]
             ELSE [ok |-> FALSE, err |-> "InvalidValue", value |-> ToString(auth_scheme_id),
                   consumed |-> 1, key |-> NoKey]

KeyIdle == akey = NoKey /\ abuf = <<>> /\ adirty = FALSE /\ aread = KeyNotRead

\* key.write_into(&mut target) on a fresh target.
KeyWrite ==
    /\ akey = NoKey
    /\ \E k \in AuthSecretKeys :
          /\ akey' = k
          /\ abuf' = AuthSecretKeyWriteInto(k)
    /\ adirty' = FALSE
    /\ UNCHANGED aread
    /\ UNCHANGED <<noteVars, authVars, unitVars, kernelVars>>

\* The scheme identifier of the written bytes is replaced by another one.
KeyTamperId ==
    /\ akey # NoKey /\ aread = KeyNotRead /\ ~adirty
    /\ \E id \in Bytes \ {abuf[1]} : abuf' = [abuf EXCEPT ![1] = id]
    /\ adirty' = TRUE
    /\ UNCHANGED <<akey, aread>>
    /\ UNCHANGED <<noteVars, authVars, unitVars, kernelVars>>

\* One byte of the key's own encoding is replaced.
KeyTamperBody ==
    /\ akey # NoKey /\ aread = KeyNotRead /\ ~adirty
    /\ \E i \in 2..Len(abuf) :
          \E b \in {0, 255} \ {abuf[i]} : abuf' = [abuf EXCEPT ![i] = b]
    /\ adirty' = TRUE
    /\ UNCHANGED <<akey, aread>>
    /\ UNCHANGED <<noteVars, authVars, unitVars, kernelVars>>

\* The written bytes are cut short.
KeyTruncate ==
    /\ akey # NoKey /\ aread = KeyNotRead /\ Len(abuf) = Len(AuthSecretKeyWriteInto(akey))
    /\ \E n \in 0..(Len(abuf) - 1) : abuf' = SubSeq(abuf, 1, n)
    /\ adirty' = TRUE
    /\ UNCHANGED <<akey, aread>>
    /\ UNCHANGED <<noteVars, authVars, unitVars, kernelVars>>

\* AuthSecretKey::read_from(&mut source) on the bytes.
KeyRead ==
    /\ akey # NoKey /\ aread = KeyNotRead
    /\ aread' = AuthSecretKeyReadFrom(abuf)
    /\ UNCHANGED <<akey, abuf, adirty>>
    /\ UNCHANGED <<noteVars, authVars, unitVars, kernelVars>>

\* The key and the bytes are dropped.
KeyDrop ==
    /\ aread # KeyNotRead
    /\ akey' = NoKey /\ abuf' = <<>> /\ adirty' = FALSE /\ aread' = KeyNotRead
    /\ UNCHANGED <<noteVars, authVars, unitVars, kernelVars>>

KeyNext == KeyWrite \/ KeyTamperId \/ KeyTamperBody \/ KeyTruncate \/ KeyRead \/ KeyDrop

\* ------------------------------------- transaction kernel: create_note --

\* constants::get_max_num_created_notes.
MAX_NUM_CREATED_NOTES == 3

\* The layout of the created-note section (crate::transaction::memory).
CREATED_NOTE_SECTION_OFFSET == 10000

NOTE_MEM_SIZE == 512

CREATED_NOTE_METADATA_OFFSET == 1

CREATED_NOTE_RECIPIENT_OFFSET == 2

CREATED_NOTE_NUM_ASSETS_OFFSET == 4

CREATED_NOTE_ASSETS_OFFSET == 5

\* NoteType::Public as u8.
PUBLIC_NOTE == 1

\* The account the transaction runs against.
KernelAccountId == 9

\* Tags as (upper, lower) 32-bit halves of the field element pushed.
KernelTags == {<<0, 4>>, <<1073741824, 0>>}

KernelRecipients == {<<0, 1, 2, 3>>, <<3, 2, 1, 0>>}

KernelAssets == {<<10, 0, 0, 7>>, <<20, 0, 0, 7>>}

\* The tag has to be a 32-bit value.
IsValidTag(tag) == tag[1] = 0

\* The memory address of the k-th created note, counting from 0.
CreatedNotePtr(k) == CREATED_NOTE_SECTION_OFFSET + k * NOTE_MEM_SIZE

\* The words create_note writes into the slot at note_ptr.
StoreNote(m, note_ptr, recipient, note_type, tag, asset) ==
    LET m1 == MapInsert(m, note_ptr + CREATED_NOTE_RECIPIENT_OFFSET, recipient)
        m2 == MapInsert(m1, note_ptr + CREATED_NOTE_METADATA_OFFSET,
                        <<tag, KernelAccountId, note_type, ZERO>>)
        m3 == MapInsert(m2, note_ptr + CREATED_NOTE_NUM_ASSETS_OFFSET, <<1, 0, 0, 0>>)
    IN  MapInsert(m3, note_ptr + CREATED_NOTE_ASSETS_OFFSET, asset)

\* A create_note that does not look at the number of created notes.
KernelCreateNote_NoLimit(n, m, recipient, note_type, tag, asset) ==
    IF ~IsValidTag(tag) THEN [ok |-> FALSE, num |-> n, mem |-> m, stack |-> 0]
    ELSE [ok |-> TRUE, num |-> n + 1,
          mem |-> StoreNote(m, CreatedNotePtr(n), recipient, note_type, tag, asset),
          stack |-> CreatedNotePtr(n)]

\* tx::create_note with n notes created so far and created-note memory m.
KernelCreateNote(n, m, recipient, note_type, tag, asset) ==
    IF n >= MAX_NUM_CREATED_NOTES THEN [ok |-> FALSE, num |-> n, mem |-> m, stack |-> 0]
    ELSE IF ~IsValidTag(tag) THEN [ok |-> FALSE, num |-> n, mem |-> m, stack |-> 0]
    ELSE [ok |-> TRUE, num |-> n + 1,
          mem |-> StoreNote(m, CreatedNotePtr(n), recipient, note_type, tag, asset),
          stack |-> CreatedNotePtr(n)]

NoKernelCall ==
    [fn |-> "none", recipient |-> EMPTY_WORD, note_type |-> 0, tag |-> <<0, 0>>,
     asset |-> EMPTY_WORD, num0 |-> 0, ok |-> FALSE]

KernelIdle ==
    /\ num_created_notes = 0 /\ kmem = <<>> /\ kstack = 0 /\ kcall = NoKernelCall

\* exec.constants::get_max_num_created_notes exec.memory::set_num_created_notes,
\* at the start of a program.
SetNumCreatedNotes ==
    /\ kcall.fn = "none"
    /\ num_created_notes' = MAX_NUM_CREATED_NOTES
    /\ kcall' = [NoKernelCall EXCEPT !.fn = "set_num_created_notes", !.ok = TRUE]
    /\ UNCHANGED <<kmem, kstack>>
    /\ UNCHANGED <<noteVars, authVars, unitVars, keyVars>>

\* push.recipient push.note_type push.tag push.asset exec.tx::create_note;
\* a failed create_note ends the program.
CreateNote ==
    /\ kcall.fn = "none" \/ kcall.ok
    /\ \E recipient \in KernelRecipients, tag \in KernelTags, asset \in KernelAssets :
          LET r == KernelCreateNote(num_created_notes, kmem, recipient, PUBLIC_NOTE,
                                    tag, asset)
          IN  /\ num_created_notes' = r.num
              /\ kmem' = r.mem
              /\ kstack' = r.stack
              /\ kcall' = [fn |-> "create_note", recipient |-> recipient,
                           note_type |-> PUBLIC_NOTE, tag |-> tag, asset |-> asset,
                           num0 |-> num_created_notes, ok |-> r.ok]
    /\ UNCHANGED <<noteVars, authVars, unitVars, keyVars>>

KernelNext == SetNumCreatedNotes \/ CreateNote

\* ------------------------------------------------------ idle variables --

RestIdle == UnitIdle /\ KeyIdle /\ KernelIdle

\* ------------------------------------------ BasicAuthenticator, running --

\* The authenticator variables while the notes are worked on.
AuthIdle ==
    /\ keys = <<>> /\ authRng = 0 /\ borrowed = FALSE /\ keyList = <<>>
    /\ calls = [c \in Slots |-> IdleCall]
    /\ twin = <<NoTwin, NoTwin>>

\* The note variables while the authenticator is worked on.
NoteIdle ==
    /\ note = NoNote /\ call = NoCall /\ ret = NoRet /\ rng = 0 /\ draws = <<>>
    /\ buf = <<>> /\ src = NoNote /\ dirty = FALSE /\ loaded = NotRead

\* BasicAuthenticator::new_with_rng(keys, rng).
AuthInit ==
    /\ \E list \in KeyLists : keyList = list /\ keys = NewKeyMap(list)
    /\ authRng \in 0..(RngMod - 1)
    /\ borrowed = FALSE
    /\ calls = [c \in Slots |-> IdleCall]
    /\ twin = <<NoTwin, NoTwin>>
    /\ NoteIdle
    /\ RestIdle

\* get_signature is entered: let mut rng = self.rng.borrow_mut().
Enter(c) ==
    /\ calls[c].pc \in {"idle", "done", "panicked"}
    /\ \E pub_key \in PubKeys, message \in Messages, account_delta \in AccountDeltas :
          LET b == RefCellBorrowMut(borrowed)
          IN  /\ calls' = [calls EXCEPT ![c] =
                    [pc |-> IF b.panic THEN "panicked" ELSE "borrowed",
                     pub_key |-> pub_key, message |-> message,
                     account_delta |-> account_delta, rng0 |-> 0,
                     result |-> IF b.panic THEN [kind |-> "panic", sig |-> <<>>]
                                ELSE NoResult]]
              /\ borrowed' = b.flag
    /\ UNCHANGED <<keys, authRng, twin, keyList>>
    /\ UNCHANGED noteVars
    /\ UNCHANGED restVars

\* A signing step that takes the key out of the map (remove instead of get).
Sign_TakesKey(c) ==
    /\ calls[c].pc = "borrowed"
    /\ LET r == GetSignatureBody(keys, calls[c].pub_key, calls[c].message,
                                 calls[c].account_delta, authRng)
       IN  /\ calls' = [calls EXCEPT ![c].pc = "signed", ![c].rng0 = authRng,
                                     ![c].result = [kind |-> r.kind, sig |-> r.sig]]
           /\ authRng' = r.rng
    /\ keys' = [d \in (DOMAIN keys) \ {WordToDigest(calls[c].pub_key)} |-> keys[d]]
    /\ UNCHANGED <<borrowed, twin, keyList>>
    /\ UNCHANGED noteVars
    /\ UNCHANGED restVars

\* The match on self.keys.get(..), signing through &mut *rng.
Sign(c) ==
    /\ calls[c].pc = "borrowed"
    /\ LET r == GetSignatureBody(keys, calls[c].pub_key, calls[c].message,
                                 calls[c].account_delta, authRng)
       IN  /\ calls' = [calls EXCEPT ![c].pc = "signed", ![c].rng0 = authRng,
                                     ![c].result = [kind |-> r.kind, sig |-> r.sig]]
           /\ authRng' = r.rng
    /\ UNCHANGED <<keys, borrowed, twin, keyList>>
    /\ UNCHANGED noteVars
    /\ UNCHANGED restVars

\* A return that leaks the RefMut: the cell stays borrowed.
Return_KeepsBorrow(c) ==
    /\ calls[c].pc = "signed"
    /\ calls' = [calls EXCEPT ![c].pc = "done"]
    /\ UNCHANGED <<keys, authRng, borrowed, twin, keyList>>
    /\ UNCHANGED noteVars
    /\ UNCHANGED restVars

\* get_signature returns: the RefMut is dropped and the cell is free again.
Return(c) ==
    /\ calls[c].pc = "signed"
    /\ calls' = [calls EXCEPT ![c].pc = "done"]
    /\ borrowed' = FALSE
    /\ UNCHANGED <<keys, authRng, twin, keyList>>
    /\ UNCHANGED noteVars
    /\ UNCHANGED restVars

AuthNext == \E c \in Slots : Enter(c) \/ Sign(c) \/ Return(c)

\* Two authenticators built by new_with_rng from the same keys and the same seed.
TwinInit ==
    /\ \E list \in KeyLists : keyList = list /\ keys = NewKeyMap(list)
    /\ \E seed \in 0..(RngMod - 1) :
          /\ authRng = seed
          /\ twin = <<[NoTwin EXCEPT !.rng = seed], [NoTwin EXCEPT !.rng = seed]>>
    /\ borrowed = FALSE
    /\ calls = [c \in Slots |-> IdleCall]
    /\ NoteIdle
    /\ RestIdle

\* get_signature, start to end, with nothing else holding the borrow.
GetSignature(keymap, pub_key, message, account_delta, r) ==
    LET b == RefCellBorrowMut(FALSE)
    IN  IF b.panic THEN [kind |-> "panic", sig |-> <<>>, rng |-> r]
        ELSE GetSignatureBody(keymap, pub_key, message, account_delta, r)

\* The same get_signature(pub_key, message, _) on both, each with a delta of its own.
TwinCall ==
    /\ \E pub_key \in PubKeys, message \in Messages, d1 \in AccountDeltas, d2 \in AccountDeltas :
          LET r1 == GetSignature(keys, pub_key, message, d1, twin[1].rng)
              r2 == GetSignature(keys, pub_key, message, d2, twin[2].rng)
          IN  /\ twin' = <<[rng |-> r1.rng, result |-> [kind |-> r1.kind, sig |-> r1.sig],
                            account_delta |-> d1],
                           [rng |-> r2.rng, result |-> [kind |-> r2.kind, sig |-> r2.sig],
                            account_delta |-> d2]>>
              /\ calls' = [calls EXCEPT ![1].pub_key = pub_key, ![1].message = message]
    /\ UNCHANGED <<keys, authRng, borrowed, keyList>>
    /\ UNCHANGED noteVars
    /\ UNCHANGED restVars

\* ========================================================= specifications ==

vars == <<noteVars, authVars, unitVars, keyVars, kernelVars>>

Init == NoteInit /\ AuthIdle /\ RestIdle

Next ==
    \/ NoteNewCall
    \/ P2idCall
    \/ P2idrCall
    \/ SwapCall
    \/ WriteNote
    \/ TamperBuf
    \/ TruncateBuf
    \/ ReadNote
    \/ DropNote

\* Notes: construction, the builders, serialization.
Spec == Init /\ [][Next]_vars

\* One BasicAuthenticator and the get_signature calls on it.
SpecAuth == AuthInit /\ [][AuthNext]_vars

\* Two BasicAuthenticators with equal keys and seeds, called alike.
SpecTwin == TwinInit /\ [][TwinCall]_vars

UnitInit == NoteIdle /\ AuthIdle /\ RestIdle

UnitNext == UnitCall

\* The authenticator () and the get_signature calls on it.
SpecUnit == UnitInit /\ [][UnitNext]_vars

KeyInit == NoteIdle /\ AuthIdle /\ RestIdle

\* AuthSecretKey: write_into, what can happen to the bytes, read_from.
SpecKey == KeyInit /\ [][KeyNext]_vars

KernelInit == NoteIdle /\ AuthIdle /\ RestIdle

\* The created notes of one transaction program.
SpecKernel == KernelInit /\ [][KernelNext]_vars

\* ------------------------------------------------------------- properties --

\* C1: reading back the bytes that write_into produced for a note yields a note
\* equal to it: header (id, metadata), details and nullifier are all equal.
C1_RoundTrip ==
    (loaded # NotRead /\ ~dirty) =>
        /\ loaded.ok
        /\ loaded.note.header.id = src.header.id
        /\ loaded.note.header.metadata = src.header.metadata
        /\ loaded.note.details = src.details
        /\ loaded.note.nullifier = src.nullifier
        /\ loaded.note = src

\* a note with two assets and two inputs went through write_into and read_from
C1_Witness ==
    /\ loaded # NotRead /\ ~dirty /\ loaded.ok
    /\ Len(src.details.assets) = 2
    /\ Len(src.details.recipient.inputs) = 2

NoteConsistent(n) ==
    /\ n.header.id = Merge(RecipientDigest(n.details.recipient),
                           AssetsCommitment(n.details.assets))
    /\ n.nullifier = DetailsNullifier(n.details)

C3_P2id ==
    (call.fn = "p2id" /\ ret.ok) =>
        /\ ret.note.details.recipient.inputs = <<call.target>>
        /\ ret.note.header.metadata.tag = NoteTagFromAccountId(call.target).tag
        /\ ret.note.header.metadata.sender = call.sender
        /\ ret.note.header.metadata.aux = 0
        /\ ret.note.details.recipient.serial_num = DrawWord(call.rng0)
        /\ ret.note.details.recipient.script = "P2ID"

\* a successful P2ID call whose sender and target differ, and so do their tags
C3_Witness ==
    /\ call.fn = "p2id" /\ ret.ok
    /\ call.sender # call.target
    /\ NoteTagFromAccountId(call.sender).tag # NoteTagFromAccountId(call.target).tag
    /\ Len(call.assets) = 2

\* C4: a successful create_p2idr_note returns a note whose inputs are
\* [target, recall_height] in that order and whose tag is
\* NoteTag::from_account_id(target, Local); whether the call succeeds does not
\* depend on recall_height.
C4_P2idr ==
    (call.fn = "p2idr") =>
        /\ ret.ok =>
              /\ ret.note.details.recipient.inputs = <<call.target, call.recall_height>>
              /\ ret.note.header.metadata.tag = NoteTagFromAccountId(call.target).tag
        /\ \A h \in RecallHeights :
              CreateP2idrNote(call.sender, call.target, call.assets, call.note_type, h,
                              call.rng0).ok = ret.ok

\* a successful P2IDR call with recall height 0
C4_Witness ==
    /\ call.fn = "p2idr" /\ ret.ok
    /\ call.recall_height = 0
    /\ call.target # 0

SwapLayout(payback_inputs) ==
    (call.fn = "swap" /\ ret.ok) =>
        LET in == ret.note.details.recipient.inputs
        IN  /\ Len(in) = 9
            /\ SubSeq(in, 1, 4) =
                  RecipientDigest(NoteRecipientNew(ret.payback, "P2ID", payback_inputs))
            /\ SubSeq(in, 5, 8) = AssetWord(call.requested)
            /\ in[9] = NoteTagFromAccountId(call.sender).tag
            /\ ret.payback = DrawWord(call.rng0)

C6_Original ==
    (call.fn \in {"p2id", "p2idr", "swap"} /\ ret.ok) =>
        /\ Len(draws) = 1
        /\ rng = RngAfterDraw(call.rng0)

\* C6, amended: a successful create_p2id_note or create_p2idr_note draws exactly
\* one word, the note's serial number; a successful create_swap_note draws
\* exactly two: first the payback serial number, then the note's serial number.
C6_Draws ==
    ret.ok =>
        /\ (call.fn \in {"p2id", "p2idr"} =>
                /\ draws = <<ret.note.details.recipient.serial_num>>
                /\ rng = RngAfterDraw(call.rng0))
        /\ (call.fn = "swap" =>
                /\ draws = <<ret.payback, ret.note.details.recipient.serial_num>>
                /\ draws[1] # draws[2]
                /\ rng = RngAfterDraw(RngAfterDraw(call.rng0)))
        /\ (call.fn = "new" => draws = <<>> /\ rng = call.rng0)

\* a successful SWAP call has drawn two words and left the rng two draws on
C6_Witness ==
    /\ call.fn = "swap" /\ ret.ok
    /\ Len(draws) = 2
    /\ rng # call.rng0
    /\ rng # RngAfterDraw(call.rng0)



Holders == {c \in Slots : calls[c].pc \in {"borrowed", "signed"}}

Signed(c) == calls[c].pc \in {"signed", "done"} /\ calls[c].result.kind = "sig"

SignatureParts(c) ==
    LET key == keys[WordToDigest(calls[c].pub_key)]
        sig == SignWithRng(key, calls[c].message, calls[c].rng0)
        h   == ComputePubKeyPoly(key)
    IN  [nonce |-> sig.nonce, h |-> h, s2 |-> sig.s2, pi |-> MulModuloP(h, sig.s2)]

FalconLayout(c, pi_len) ==
    LET p   == SignatureParts(c)
        out == calls[c].result.sig
        n   == Len(out)
    IN  /\ n = NonceLen + PolyN + PolyN + pi_len
        /\ Len(p.nonce) = NonceLen /\ Len(p.h) = PolyN /\ Len(p.s2) = PolyN
        /\ Len(p.pi) = pi_len
        /\ out = Reverse(p.nonce \o p.h \o p.s2 \o p.pi)
        /\ \A i \in 1..NonceLen : out[n + 1 - i] = p.nonce[i]
        /\ \A i \in 1..pi_len : out[pi_len + 1 - i] = p.pi[i]

C8_UnknownKey ==
    \A c \in Slots :
        calls[c].pc \in {"signed", "done"} =>
            IF WordToDigest(calls[c].pub_key) \in DOMAIN keys
                THEN calls[c].result.kind = "sig" /\ calls[c].result.sig # <<>>
            ELSE calls[c].result.kind = "UnknownKey" /\ calls[c].result.sig = <<>>

\* one call has returned UnknownKey (with a non-empty delta) and another a signature
C8_Witness ==
    \E c, d \in Slots :
        /\ calls[c].pc = "done" /\ calls[c].result.kind = "UnknownKey"
        /\ calls[c].account_delta = "nonce_incremented"
        /\ calls[d].pc = "done" /\ calls[d].result.kind = "sig"

\* C9: at most one get_signature holds the borrow of the random source; a call
\* entered while the borrow is held panics at once, with no signature, leaving
\* the random source and the borrow as they were; only the holder of the borrow
\* changes the random source.
C9_SingleBorrow ==
    /\ [](/\ Cardinality(Holders) <= 1
          /\ (borrowed <=> Holders # {})
          /\ \A c \in Slots : calls[c].pc = "panicked" =>
                calls[c].result = [kind |-> "panic", sig |-> <<>>])
    /\ [][\A c \in Slots :
            /\ (calls'[c] # calls[c] /\ calls[c].pc \notin {"borrowed", "signed"} /\ borrowed)
                  => /\ calls'[c].pc = "panicked"
                     /\ authRng' = authRng
                     /\ borrowed'
                     /\ \A d \in Slots \ {c} : calls'[d] = calls[d]
            /\ (authRng' # authRng /\ calls'[c] # calls[c])
                  => calls[c].pc = "borrowed" /\ Holders = {c}]_vars

\* a call panicked on the borrow while the other one holds it after signing
C9_Witness ==
    \E c, d \in Slots :
        /\ calls[c].pc = "panicked"
        /\ calls[d].pc = "signed" /\ calls[d].result.kind = "sig"
        /\ borrowed

\* C10: two authenticators with the same keys and the same seed, called with the
\* same public key and message but each with its own account delta, return the
\* same result and end in the same state of the random source.
C10_Deterministic ==
    /\ twin[1].result = twin[2].result
    /\ twin[1].rng = twin[2].rng

\* both returned a signature, the deltas they were given differ
C10_Witness ==
    /\ twin[1].account_delta # twin[2].account_delta
    /\ twin[1].result.kind = "sig"
    /\ twin[2].result.kind = "sig"
    /\ twin[1].rng # authRng

\* C11: every get_signature call on the authenticator (), whatever its public
\* key, message and delta and whatever calls came before it, returns the error
\* RejectedSignature: no signature, and not UnknownKey.
C11_Rejected ==
    \A i \in 1..Len(unitCalls) :
        /\ unitCalls[i].result.kind = "RejectedSignature"
        /\ unitCalls[i].result.kind \notin {"sig", "UnknownKey"}
        /\ unitCalls[i].result.sig = <<>>

\* two calls in a row that differ in public key, message and delta
C11_Witness ==
    /\ Len(unitCalls) >= 2
    /\ unitCalls[1].pub_key = PubKeyA /\ unitCalls[2].pub_key = PubKeyC
    /\ unitCalls[1].message # unitCalls[2].message
    /\ unitCalls[1].account_delta # unitCalls[2].account_delta
    /\ unitCalls[2].result.kind = "RejectedSignature"

\* C12: the serialization of an AuthSecretKey is the one byte key_id() followed by
\* the encoding of the secret key, and reading it back succeeds with a key of the
\* same variant whose secret key bytes are those of the key written.
C12_KeyRoundTrip ==
    (akey # NoKey /\ ~adirty) =>
        /\ Len(abuf) = 1 + Len(SecretKeyWrite(akey.secret_key))
        /\ abuf[1] = KeyId(akey)
        /\ Tail(abuf) = SecretKeyWrite(akey.secret_key)
        /\ aread # KeyNotRead =>
              /\ aread.ok
              /\ aread.key.variant = akey.variant
              /\ SecretKeyWrite(aread.key.secret_key) = SecretKeyWrite(akey.secret_key)
              /\ aread.consumed = Len(abuf)

\* the second key was written and read back
C12_Witness ==
    /\ akey = RpoFalcon512(2) /\ ~adirty
    /\ aread.ok /\ aread.key = akey

\* C13: reading an AuthSecretKey from bytes whose first byte is not 0 fails with
\* InvalidValue carrying that byte as text, after reading that one byte only; no
\* key comes out of it.
C13_UnknownScheme ==
    (aread # KeyNotRead /\ Len(abuf) > 0 /\ abuf[1] # 0) =>
        /\ ~aread.ok
        /\ aread.err = "InvalidValue"
        /\ aread.value = ToString(abuf[1])
        /\ aread.consumed = 1
        /\ aread.key = NoKey

\* identifier 255 in front of a whole, well-formed secret key encoding
C13_Witness ==
    /\ aread # KeyNotRead
    /\ Len(abuf) = 2 + SkLen /\ abuf[1] = 255
    /\ Tail(abuf) = SecretKeyWrite(akey.secret_key)
    /\ aread.err = "InvalidValue" /\ aread.value = "255"

\* C14: a successful create_note raises the number of created notes by exactly
\* one, stores recipient, metadata, asset count and asset in the slot of the k-th
\* note (k counted from 0, at CREATED_NOTE_SECTION_OFFSET + k * NOTE_MEM_SIZE) and
\* leaves the address of that slot on top of the stack; a create_note issued with
\* the maximum already reached fails, and the number never exceeds the maximum.
C14_CreateNote ==
    /\ num_created_notes <= MAX_NUM_CREATED_NOTES
    /\ kcall.fn = "create_note" =>
          LET k == kcall.num0
              note_ptr == CREATED_NOTE_SECTION_OFFSET + k * NOTE_MEM_SIZE
          IN  IF kcall.ok
                  THEN /\ num_created_notes = k + 1
                       /\ kstack = note_ptr
                       /\ kmem[note_ptr + CREATED_NOTE_RECIPIENT_OFFSET] = kcall.recipient
                       /\ kmem[note_ptr + CREATED_NOTE_METADATA_OFFSET] =
                              <<kcall.tag, KernelAccountId, kcall.note_type, ZERO>>
                       /\ kmem[note_ptr + CREATED_NOTE_NUM_ASSETS_OFFSET] = <<1, 0, 0, 0>>
                       /\ kmem[note_ptr + CREATED_NOTE_ASSETS_OFFSET] = kcall.asset
              ELSE num_created_notes = k
    /\ (kcall.fn = "create_note" /\ kcall.num0 = MAX_NUM_CREATED_NOTES) => ~kcall.ok

\* the maximum was reached note by note, and the next create_note failed
C14_Witness ==
    /\ kcall.fn = "create_note" /\ ~kcall.ok /\ IsValidTag(kcall.tag)
    /\ kcall.num0 = MAX_NUM_CREATED_NOTES
    /\ \A k \in 0..(MAX_NUM_CREATED_NOTES - 1) :
          (CREATED_NOTE_SECTION_OFFSET + k * NOTE_MEM_SIZE + CREATED_NOTE_RECIPIENT_OFFSET)
              \in DOMAIN kmem

\* C15: the key map holds exactly the public key digests of the pairs given to
\* new_with_rng, and no step of any get_signature call, whatever its outcome,
\* adds, removes or changes an entry.
C15_KeysFixed ==
    /\ [](DOMAIN keys = {WordToDigest(keyList[i][1]) : i \in 1..Len(keyList)})
    /\ [][keys' = keys]_vars

\* built from two pairs; one call returned UnknownKey, the other a signature
C15_Witness ==
    /\ Len(keyList) = 2 /\ keyList[1][1] # keyList[2][1]
    /\ \E c, d \in Slots :
          /\ calls[c].pc = "done" /\ calls[c].result.kind = "UnknownKey"
          /\ calls[d].pc = "done" /\ calls[d].result.kind = "sig"

\* C16: the signing step of a call that ends with UnknownKey leaves the random
\* source as it was; a call that returns has given the borrow back, so with no
\* call holding it the cell is free, a call entered then never panics, and with
\* a key of the map it is signed, whatever the calls before it returned.
C16_Released ==
    /\ [](Holders = {} => ~borrowed)
    /\ [][\A c \in Slots :
            /\ (calls[c].pc = "borrowed" /\ calls'[c].pc = "signed"
                    /\ calls'[c].result.kind = "UnknownKey")
                  => authRng' = authRng
            /\ (calls[c].pc = "signed" /\ calls'[c].pc = "done") => ~borrowed'
            /\ (Holders = {} /\ calls'[c] # calls[c])
                  => calls'[c].pc = "borrowed" /\ calls'[c].result.kind # "panic"
            /\ (calls[c].pc = "borrowed" /\ calls'[c].pc = "signed"
                    /\ WordToDigest(calls[c].pub_key) \in DOMAIN keys)
                  => calls'[c].result.kind = "sig"]_vars

\* a call returned UnknownKey; the call entered after it, with a known key, got
\* the borrow and a signature
C16_Witness ==
    \E c, d \in Slots :
        /\ calls[c].pc = "done" /\ calls[c].result.kind = "UnknownKey"
        /\ calls[d].pc = "signed" /\ calls[d].result.kind = "sig"
        /\ borrowed

====
